---- MODULE Spec2Model ----
(***************************************************************************)
(* State-machine model of src/Registration/pReg/SIRFReg.py, the object     *)
(* wrapper around the native SIRFReg engine (pysirfreg / pyiutilities).    *)
(*                                                                         *)
(* The wrapper's methods are modelled as operators over a "machine" record *)
(* m = [heap, calls, k, fail, raised, ret, value]:                          *)
(*   heap   the engine's data handles, in allocation order (handle ids are *)
(*          the indices, 0 is Python's None);                              *)
(*   calls  the engine calls made by the running method, in order;         *)
(*   k      the number of engine calls made so far by the running method;  *)
(*   fail   which engine call of the method the engine fails (0: none);    *)
(*   raised whether a Python error has been raised;                        *)
(*   ret    the object the method returns;                                 *)
(*   value  the number the method returns;                                 *)
(*   self   the object the method was called on, once it rebinds its handle;*)
(*   reg/rs the engine-side state of the registration object / resampler.  *)
(* Each action of a specification runs one whole method.                   *)
(***************************************************************************)
EXTENDS Integers, Sequences, FiniteSets, TLC

VARIABLES
    heap,   \* engine data handles: Seq of [ok, kind, val, dtype, src, rel]
    objs,   \* Python objects held by the caller: Seq of [name, handle]
    lst,    \* a Python list of objects (indices into objs) the caller builds
    reg,    \* engine-side state of the registration object
    rs,     \* engine-side state of the resampler object
    sinks,  \* engine text sinks (printers and writers): Seq of [kind, dest, deleted]
    chan,   \* engine's diagnostic channels: channel number -> sink id, or None when closed
    last    \* record of the last method call (arguments, outcome, pre-state)

vars == <<heap, objs, lst, reg, rs, sinks, chan, last>>

----------------------------------------------------------------------------
(* Bounds of the model *)

MaxList == 6        \* longest argument list the caller builds
MaxListCalls == 1   \* handles the engine hands out to the list methods before the caller stops

----------------------------------------------------------------------------
(* Class names (self.name) *)

NameImage == "NiftiImage"
NameImage3D == "NiftiImage3D"
NameTensor == "NiftiImage3DTensor"
NameDisp == "NiftiImage3DDisplacement"
NameDef == "NiftiImage3DDeformation"
NameMat44 == "SIRFRegMat44"
NameAladin == "SIRFRegNiftyAladinSym"
NameF3d == "SIRFRegNiftyF3dSym"
NameResample == "SIRFRegNiftyResample"

\* isinstance(x, NiftiImage): NiftiImage and its subclasses
ImageNames == {NameImage, NameImage3D, NameTensor, NameDisp, NameDef}
\* isinstance(x, NiftiImage3DTensor)
TensorNames == {NameTensor, NameDisp, NameDef}
\* isinstance(x, _Transformation)
TransformationNames == {NameMat44, NameDisp, NameDef}

IsImage(o) == o.name \in ImageNames
IsTransformation(o) == o.name \in TransformationNames

None == 0
NoObj == [name |-> "", handle |-> None]

\* The diagnostic channels and the engine's channel table with every channel closed.
INFO_CHANNEL == 0
WARNING_CHANNEL == 1
ERROR_CHANNEL == 2
Channels == {INFO_CHANNEL, WARNING_CHANNEL, ERROR_CHANNEL}
NoChannels == [c \in Channels |-> None]

----------------------------------------------------------------------------
(* The engine boundary: data handles *)

\* Voxel datatypes (a few of the engine's fixed set) and the one of a new object.
Datatypes == {"float32", "int16"}
DefaultType == "float32"

\* A handle wrapping a live engine object of class kind: its data val, its
\* datatype, and the handles src its data was derived from.
OkHandle(kind, val, dtype, src) ==
    [ok |-> TRUE, kind |-> kind, val |-> val, dtype |-> dtype, src |-> src, rel |-> 0]

\* A handle carrying an execution error and no object.
ErrHandle ==
    [ok |-> FALSE, kind |-> "error", val |-> 0, dtype |-> "", src |-> <<>>, rel |-> 0]

\* A handle carrying only a success status (the result of a void engine call).
VoidHandle == OkHandle("void", 0, "", <<>>)

\* Engine-side state of a registration object: the handles of the reference
\* and floating images set, whether a result is available, the inputs it was
\* computed from and the number of the run that computed it; the parameter
\* file, the time points and the initial affine transformation set.
NoReg == [ref |-> None, flo |-> None, avail |-> FALSE, from |-> <<None, None>>, run |-> 0,
          file |-> 0, ftp |-> 0, rtp |-> 0, aff |-> None]

\* Engine-side state of a resampler object: the images set, the
\* transformation chain, the interpolation selector, and the output.
NoRs == [ref |-> None, flo |-> None, chain |-> <<>>, interp |-> 0, set |-> FALSE,
         avail |-> FALSE]

NewMachine(h, fail) ==
    [heap |-> h, calls |-> <<>>, k |-> 0, fail |-> fail, raised |-> FALSE, ret |-> NoObj,
     value |-> 0, self |-> NoObj, reg |-> NoReg, rs |-> NoRs]

\* The machine of a method of a registration object / of a resampler.
RegMachine(h, fail, r) == [NewMachine(h, fail) EXCEPT !.reg = r]

RsMachine(h, fail, r) == [NewMachine(h, fail) EXCEPT !.rs = r]

\* The engine refuses a call handed a handle that is in error state.
ArgsBad(m, args) ==
    \E i \in 1..Len(args) : args[i] # None /\ ~m.heap[args[i]].ok

\* One call across the boundary. It always returns a fresh handle (the last
\* one of the heap): rec when the call succeeds, an error handle when it is
\* the call chosen to fail, when the engine's own precondition `refused`
\* holds, or when an argument handle is in error state.
ECall(m, fn, n, types, args, refused, rec) ==
    LET k == m.k + 1
        failed == (k = m.fail) \/ refused \/ ArgsBad(m, args)
        h == Len(m.heap) + 1
    IN  [m EXCEPT !.heap = Append(@, IF failed THEN ErrHandle ELSE rec),
                  !.calls = Append(@, [fn |-> fn, n |-> n, types |-> types,
                                       args |-> args, h |-> h]),
                  !.k = k]

\* The handle the latest engine call returned.
Ret(m) == Len(m.heap)

\* A call that, when it succeeds, also rewrites the object behind handle
\* target (an in-place engine operation).
ECallMut(m, fn, n, types, args, refused, target, newrec) ==
    LET m1 == ECall(m, fn, n, types, args, refused, VoidHandle)
    IN  IF m1.heap[Ret(m1)].ok
        THEN [m1 EXCEPT !.heap[target] = newrec]
        ELSE m1

\* raise error(...): the method ends and returns nothing.
Raise(m) == [m EXCEPT !.raised = TRUE, !.ret = NoObj]

\* pUtilities.check_status: raise when the handle carries an error.
check_status(m, h) ==
    IF m.heap[h].ok THEN m ELSE Raise(m)

\* pyiutil.deleteDataHandle
deleteDataHandle(m, h) == [m EXCEPT !.heap[h].rel = @ + 1]

\* pUtilities.try_calling: check the returned handle, then delete it.
try_calling(m, h) ==
    LET m1 == check_status(m, h)
    IN  IF m1.raised THEN m1 ELSE deleteDataHandle(m1, h)

\* __del__ of every wrapper class: release the handle unless it is None.
Del(m, o) == IF o.handle # None THEN deleteDataHandle(m, o.handle) ELSE m

Return(m, o) == [m EXCEPT !.ret = o]

----------------------------------------------------------------------------
(* Constructors with src=None: newObject(name) then check_status.  When    *)
(* check_status raises, the half-built object is dropped and its __del__   *)
(* releases the handle.                                                    *)

NewObject(m, name) ==
    LET m1 == ECall(m, "newObject", 0, <<name>>, <<>>, FALSE,
                    OkHandle(name, 0, DefaultType, <<>>))
        o == [name |-> name, handle |-> Ret(m1)]
        m2 == check_status(m1, o.handle)
    IN  IF m2.raised THEN Del(m2, o) ELSE Return(m2, o)

----------------------------------------------------------------------------
(* _Transformation.get_as_deformation_field(self, ref) *)

get_as_deformation_field(m, self, ref) ==
    LET m1 == NewObject(m, NameDef)                \* output = NiftiImage3DDeformation()
    IN  IF m1.raised THEN m1 ELSE
        LET m2 == ECall(m1, "get_as_deformation_field", 0, <<self.name>>,
                        <<self.handle, ref.handle>>, FALSE,
                        OkHandle(NameDef, 0, DefaultType, <<ref.handle, self.handle>>))
            output == [m1.ret EXCEPT !.handle = Ret(m2)]  \* output.handle = ...
            m3 == check_status(m2, output.handle)
        IN  IF m3.raised THEN Del(m3, output) ELSE Return(m3, output)

----------------------------------------------------------------------------
(* NiftiImage3DDeformation.compose_single_deformation(trans, ref) *)

\* Mutant: the tags of the two field variants are exchanged.
RECURSIVE TypeString_fields_swapped(_)
TypeString_fields_swapped(trans) ==
    IF trans = <<>> THEN <<>>
    ELSE LET n == Head(trans)
         IN  (IF n.name = NameMat44 THEN <<"1">>
              ELSE IF n.name = NameDisp THEN <<"3">>
              ELSE IF n.name = NameDef THEN <<"2">>
              ELSE <<>>) \o TypeString_fields_swapped(Tail(trans))

\* The type string: one character per element, by isinstance.
RECURSIVE TypeString(_)
TypeString(trans) ==
    IF trans = <<>> THEN <<>>
    ELSE LET n == Head(trans)
         IN  (IF n.name = NameMat44 THEN <<"1">>
              ELSE IF n.name = NameDisp THEN <<"2">>
              ELSE IF n.name = NameDef THEN <<"3">>
              ELSE <<>>) \o TypeString(Tail(trans))

\* trans[0].handle .. trans[len-1].handle, then None up to five arguments.
HandleArgs(trans) ==
    [i \in 1..5 |-> IF i <= Len(trans) THEN trans[i].handle ELSE None]

\* Mutant: the last branch is missing, so five transformations are refused.
compose_upto_four(m, trans, ref) ==
    IF Len(trans) = 1 THEN get_as_deformation_field(m, trans[1], ref)
    ELSE
        LET types == TypeString(trans)
            m1 == NewObject(m, NameDef)
        IN  IF m1.raised THEN m1 ELSE
            IF Len(trans) \in 2..4
            THEN LET m2 == ECall(m1, "compose_single_deformation", Len(trans), types,
                                 <<ref.handle>> \o HandleArgs(trans), FALSE,
                                 OkHandle(NameDef, 0, DefaultType,
                                          <<ref.handle>> \o [i \in 1..Len(trans) |-> trans[i].handle]))
                     z == [m1.ret EXCEPT !.handle = Ret(m2)]
                     m3 == check_status(m2, z.handle)
                 IN  IF m3.raised THEN Del(m3, z) ELSE Return(m3, z)
            ELSE Del(Raise(m1), m1.ret)

\* Mutant: a single transformation is sent to the composition routine too.
compose_no_delegation(m, trans, ref) ==
    LET types == TypeString(trans)
        m1 == NewObject(m, NameDef)
    IN  IF m1.raised THEN m1 ELSE
        IF Len(trans) \in 1..5
        THEN LET m2 == ECall(m1, "compose_single_deformation", Len(trans), types,
                             <<ref.handle>> \o HandleArgs(trans), FALSE,
                             OkHandle(NameDef, 0, DefaultType,
                                      <<ref.handle>> \o [i \in 1..Len(trans) |-> trans[i].handle]))
                 z == [m1.ret EXCEPT !.handle = Ret(m2)]
                 m3 == check_status(m2, z.handle)
             IN  IF m3.raised THEN Del(m3, z) ELSE Return(m3, z)
        ELSE Del(Raise(m1), m1.ret)

compose_single_deformation(m, trans, ref) ==
    IF Len(trans) = 1 THEN get_as_deformation_field(m, trans[1], ref)
    ELSE
        LET types == TypeString(trans)
            m1 == NewObject(m, NameDef)            \* z = NiftiImage3DDeformation()
        IN  IF m1.raised THEN m1 ELSE
            IF Len(trans) \in 2..5
            THEN LET m2 == ECall(m1, "compose_single_deformation", Len(trans), types,
                                 <<ref.handle>> \o HandleArgs(trans), FALSE,
                                 OkHandle(NameDef, 0, DefaultType,
                                          <<ref.handle>> \o [i \in 1..Len(trans) |-> trans[i].handle]))
                     z == [m1.ret EXCEPT !.handle = Ret(m2)]
                     m3 == check_status(m2, z.handle)
                 IN  IF m3.raised THEN Del(m3, z) ELSE Return(m3, z)
            ELSE Del(Raise(m1), m1.ret)

----------------------------------------------------------------------------
(* NiftiImage.dump_headers(to_dump) *)

\* Mutant: the first image is passed in every used argument position.
dump_headers_first_only(m, to_dump) ==
    IF Len(to_dump) \in 1..5
    THEN LET m1 == ECall(m, "dump_headers", Len(to_dump), <<>>,
                         [i \in 1..5 |-> IF i <= Len(to_dump) THEN to_dump[1].handle ELSE None],
                         FALSE, VoidHandle)
         IN  try_calling(m1, Ret(m1))
    ELSE Raise(m)

dump_headers(m, to_dump) ==
    IF Len(to_dump) \in 1..5
    THEN LET m1 == ECall(m, "dump_headers", Len(to_dump), <<>>, HandleArgs(to_dump),
                         FALSE, VoidHandle)
         IN  try_calling(m1, Ret(m1))
    ELSE Raise(m)

----------------------------------------------------------------------------
(* NiftiImage: deep_copy, the binary operators, ==, fill, change_datatype  *)

\* Mutant: the copy shares the original's handle instead of copying into its own.
deep_copy_shallow(m, self) ==
    LET m1 == NewObject(m, self.name)
    IN  IF m1.raised THEN m1 ELSE
        LET image == [m1.ret EXCEPT !.handle = self.handle]
            m2 == ECall(m1, "deep_copy", 0, <<>>, <<image.handle, self.handle>>, FALSE, VoidHandle)
            m3 == try_calling(m2, Ret(m2))
        IN  IF m3.raised THEN Del(m3, image) ELSE Return(m3, image)

deep_copy(m, self) ==
    LET m1 == NewObject(m, self.name)              \* image = <class of self>()
    IN  IF m1.raised THEN m1 ELSE
        LET image == m1.ret
            m2 == ECallMut(m1, "deep_copy", 0, <<>>, <<image.handle, self.handle>>, FALSE,
                           image.handle,
                           [m1.heap[image.handle] EXCEPT
                               !.val = m1.heap[self.handle].val,
                               !.dtype = m1.heap[self.handle].dtype,
                               !.src = <<self.handle>>])
            m3 == try_calling(m2, Ret(m2))
        IN  IF m3.raised THEN Del(m3, image) ELSE Return(m3, image)

\* The engine's voxelwise arithmetic: op 0 adds, 1 subtracts, 2 multiplies.
MathsVal(a, b, op) ==
    IF op = 0 THEN a + b ELSE IF op = 1 THEN a - b ELSE a * b

\* cSIRFReg_NiftiImage_maths_im(z, x, y, op): z := x op y
maths_im(m, z, x, y, op) ==
    ECallMut(m, "maths_im", op, <<>>, <<z, x, y>>, FALSE, z,
             [m.heap[z] EXCEPT !.val = MathsVal(m.heap[x].val, m.heap[y].val, op),
                               !.src = <<x, y>>])

\* cSIRFReg_NiftiImage_maths_num(z, x, num, op): z := x op num
maths_num(m, z, x, num, op) ==
    ECallMut(m, "maths_num", op, <<>>, <<z, x>>, FALSE, z,
             [m.heap[z] EXCEPT !.val = MathsVal(m.heap[x].val, num, op),
                               !.src = <<x, None>>])

\* Mutant: the operator writes its result into self instead of the copy.
maths_in_place(m, z, self, other, num, op) ==
    LET m2 == IF IsImage(other)
              THEN maths_im(m, self.handle, self.handle, other.handle, op)
              ELSE maths_num(m, self.handle, self.handle, num, op)
        m3 == try_calling(m2, Ret(m2))
    IN  IF m3.raised THEN Del(m3, z) ELSE
        LET m4 == check_status(m3, z.handle)
        IN  IF m4.raised THEN Del(m4, z) ELSE Return(m4, z)

\* The body of __add__ (op 0) and __sub__ (op 1) once the copy z is made:
\* other is an image, or anything else, which is used as the number
\* float(other) = num.  An exception drops z, whose __del__ releases it.
maths_on_copy(m, z, self, other, num, op) ==
    LET m2 == IF IsImage(other)
              THEN maths_im(m, z.handle, self.handle, other.handle, op)
              ELSE maths_num(m, z.handle, self.handle, num, op)
        m3 == try_calling(m2, Ret(m2))
    IN  IF m3.raised THEN Del(m3, z) ELSE
        LET m4 == check_status(m3, z.handle)
        IN  IF m4.raised THEN Del(m4, z) ELSE Return(m4, z)

binary(m, self, other, num, op) ==
    LET m1 == deep_copy(m, self)                   \* z = self.deep_copy()
    IN  IF m1.raised THEN m1 ELSE maths_on_copy(m1, m1.ret, self, other, num, op)

\* A Python number passed where an image could be.
Number == [name |-> "float", handle |-> None]

add(m, self, other, num) == binary(m, self, other, num, 0)

sub(m, self, other, num) == binary(m, self, other, num, 1)

\* The body of __mul__ once the copy z is made: always by float(other) = num.
mul_on_copy(m, z, self, num) ==
    LET m2 == maths_num(m, z.handle, self.handle, num, 2)
        m3 == try_calling(m2, Ret(m2))
    IN  IF m3.raised THEN Del(m3, z) ELSE
        LET m4 == check_status(m3, z.handle)
        IN  IF m4.raised THEN Del(m4, z) ELSE Return(m4, z)

mul(m, self, num) ==
    LET m1 == deep_copy(m, self)                   \* z = self.deep_copy()
    IN  IF m1.raised THEN m1 ELSE mul_on_copy(m1, m1.ret, self, num)

\* NiftiImage.__eq__: the engine compares data and metadata exactly.
eq(m, self, other) ==
    LET same == /\ m.heap[self.handle].val = m.heap[other.handle].val
                /\ m.heap[self.handle].dtype = m.heap[other.handle].dtype
        m1 == ECall(m, "equal", 0, <<>>, <<self.handle, other.handle>>, FALSE,
                    OkHandle("int", IF same THEN 1 ELSE 0, "", <<>>))
        h == Ret(m1)
        m2 == check_status(m1, h)
    IN  IF m2.raised THEN m2
        ELSE deleteDataHandle([m2 EXCEPT !.value = m2.heap[h].val], h)

fill(m, self, val) ==
    LET m1 == ECallMut(m, "fill", 0, <<>>, <<self.handle>>, FALSE, self.handle,
                       [m.heap[self.handle] EXCEPT !.val = val])
    IN  try_calling(m1, Ret(m1))

change_datatype(m, self, datatype) ==
    LET m1 == ECallMut(m, "change_datatype", 0, <<datatype>>, <<self.handle>>, FALSE,
                       self.handle, [m.heap[self.handle] EXCEPT !.dtype = datatype])
    IN  try_calling(m1, Ret(m1))

\* NiftiImage3DTensor.create_from_3D_image: the tensor takes its shape from src.
create_from_3D_image(m, self, src) ==
    LET m1 == ECallMut(m, "create_from_3D_image", 0, <<>>, <<self.handle, src.handle>>,
                       FALSE, self.handle,
                       [m.heap[self.handle] EXCEPT !.val = 0, !.src = <<src.handle>>])
        m2 == try_calling(m1, Ret(m1))
    IN  IF m2.raised THEN m2 ELSE check_status(m2, self.handle)

----------------------------------------------------------------------------
(* Parameter setters: _setParameter, _set_char_par, _set_int_par           *)

\* pyiutil.charDataHandle / intDataHandle / floatDataHandle: a new handle
\* holding a value to pass across the boundary.
DataHandle(m, kind, value) ==
    [m EXCEPT !.heap = Append(@, OkHandle(kind, value, "", <<>>))]

\* What cSIRFReg_setParameter(hs, set, par, hv) stores when it succeeds.
\* Setting an image of a registration object discards its result.
StoreParameter(m, set, par, hv) ==
    IF set = "SIRFReg" /\ par = "reference_image"
        THEN [m EXCEPT !.reg.ref = hv, !.reg.avail = FALSE]
    ELSE IF set = "SIRFReg" /\ par = "floating_image"
        THEN [m EXCEPT !.reg.flo = hv, !.reg.avail = FALSE]
    ELSE IF set = "SIRFReg" /\ par = "parameter_file"
        THEN [m EXCEPT !.reg.file = m.heap[hv].val]
    ELSE IF set = NameF3d /\ par = "floating_time_point"
        THEN [m EXCEPT !.reg.ftp = m.heap[hv].val]
    ELSE IF set = NameF3d /\ par = "reference_time_point"
        THEN [m EXCEPT !.reg.rtp = m.heap[hv].val]
    ELSE IF set = NameF3d /\ par = "initial_affine_transformation"
        THEN [m EXCEPT !.reg.aff = hv]
    ELSE IF set = NameResample /\ par = "reference_image"
        THEN [m EXCEPT !.rs.ref = hv]
    ELSE IF set = NameResample /\ par = "floating_image"
        THEN [m EXCEPT !.rs.flo = hv]
    ELSE IF set = NameResample /\ par = "interpolation_type"
        THEN [m EXCEPT !.rs.interp = m.heap[hv].val, !.rs.set = TRUE]
    ELSE m

\* cSIRFReg_setParameter: a failed call stores nothing.
cSIRFReg_setParameter(m, hs, set, par, hv) ==
    LET m1 == ECall(m, "setParameter", 0, <<set, par>>, <<hs, hv>>, FALSE, VoidHandle)
    IN  IF m1.heap[Ret(m1)].ok THEN StoreParameter(m1, set, par, hv) ELSE m1

setParameter(m, hs, set, par, hv) ==
    LET m1 == cSIRFReg_setParameter(m, hs, set, par, hv)
        h == Ret(m1)
        m2 == check_status(m1, h)
    IN  IF m2.raised THEN m2 ELSE deleteDataHandle(m2, h)

set_char_par(m, handle, set, par, value) ==
    LET m1 == DataHandle(m, "char", value)
        h == Ret(m1)
        m2 == setParameter(m1, handle, set, par, h)
    IN  IF m2.raised THEN m2 ELSE deleteDataHandle(m2, h)

set_int_par(m, handle, set, par, value) ==
    LET m1 == DataHandle(m, "int", value)
        h == Ret(m1)
        m2 == setParameter(m1, handle, set, par, h)
    IN  IF m2.raised THEN m2 ELSE deleteDataHandle(m2, h)

----------------------------------------------------------------------------
(* _SIRFReg, NiftyAladinSym, NiftyF3dSym *)

set_parameter_file(m, self, filename) ==
    set_char_par(m, self.handle, "SIRFReg", "parameter_file", filename)

\* Mutant: once a reference image is set, later calls are not forwarded to the engine.
set_reference_image_once(m, self, src) ==
    IF m.reg.ref # None THEN m
    ELSE setParameter(m, self.handle, "SIRFReg", "reference_image", src.handle)

set_reference_image(m, self, src) ==
    setParameter(m, self.handle, "SIRFReg", "reference_image", src.handle)

set_floating_image(m, self, src) ==
    setParameter(m, self.handle, "SIRFReg", "floating_image", src.handle)

\* cSIRFReg_SIRFReg_update: needs both images; a successful run replaces the
\* result, a failed one leaves the engine as it was.
cSIRFReg_SIRFReg_update(m, hs) ==
    LET m1 == ECall(m, "SIRFReg_update", 0, <<>>, <<hs>>,
                    m.reg.ref = None \/ m.reg.flo = None, VoidHandle)
    IN  IF m1.heap[Ret(m1)].ok
        THEN [m1 EXCEPT !.reg.avail = TRUE, !.reg.from = <<m.reg.ref, m.reg.flo>>,
                        !.reg.run = @ + 1]
        ELSE m1

\* Mutant: the status the engine returns is deleted unchecked.
update_unchecked(m, self) ==
    LET m1 == cSIRFReg_SIRFReg_update(m, self.handle)
    IN  deleteDataHandle(m1, Ret(m1))

update(m, self) ==
    LET m1 == cSIRFReg_SIRFReg_update(m, self.handle)
    IN  try_calling(m1, Ret(m1))

\* A handle on a part of the result (refused while there is no result): the
\* output image, a deformation or displacement field, a matrix.
ResultHandle(m, fn, what, hs, kind) ==
    ECall(m, fn, 0, <<what>>, <<hs>>, ~m.reg.avail,
          OkHandle(kind, m.reg.run, DefaultType, m.reg.from))

get_output(m, self) ==
    LET m1 == NewObject(m, NameImage3D)            \* output = NiftiImage3D()
    IN  IF m1.raised THEN m1 ELSE
        LET m2 == ResultHandle(m1, "parameter", "output", self.handle, NameImage3D)
            output == [m1.ret EXCEPT !.handle = Ret(m2)]
            m3 == check_status(m2, output.handle)
        IN  IF m3.raised THEN Del(m3, output) ELSE Return(m3, output)

\* get_deformation_field_fwrd/back (kind NameDef, what "fwrd_deformation" /
\* "back_deformation") and get_displacement_field_fwrd/back (kind NameDisp,
\* what "fwrd_displacement" / "back_displacement").
get_field(m, self, kind, what) ==
    LET m1 == NewObject(m, kind)
    IN  IF m1.raised THEN m1 ELSE
        LET m2 == ResultHandle(m1, "get_deformation_displacement_image", what,
                               self.handle, kind)
            output == [m1.ret EXCEPT !.handle = Ret(m2)]
            m3 == check_status(m2, output.handle)
        IN  IF m3.raised THEN Del(m3, output) ELSE Return(m3, output)

FieldKinds == {NameDef, NameDisp}
Directions == {"fwrd", "back"}
FieldName(kind, dir) ==
    IF kind = NameDef
    THEN (IF dir = "fwrd" THEN "fwrd_deformation" ELSE "back_deformation")
    ELSE (IF dir = "fwrd" THEN "fwrd_displacement" ELSE "back_displacement")

\* NiftyAladinSym.get_transformation_matrix_fwrd/back: the handle returned
\* by the engine is stored and returned as it is.
get_transformation_matrix(m, self, dir) ==
    LET m1 == NewObject(m, NameMat44)              \* tm = Mat44()
    IN  IF m1.raised THEN m1 ELSE
        LET m2 == ResultHandle(m1, "get_TM", dir, self.handle, NameMat44)
            tm == [m1.ret EXCEPT !.handle = Ret(m2)]
        IN  Return(m2, tm)

set_floating_time_point(m, self, n) ==
    set_int_par(m, self.handle, self.name, "floating_time_point", n)

set_reference_time_point(m, self, n) ==
    set_int_par(m, self.handle, self.name, "reference_time_point", n)

set_initial_affine_transformation(m, self, src) ==
    setParameter(m, self.handle, self.name, "initial_affine_transformation", src.handle)

----------------------------------------------------------------------------
(* Mat44 *)

\* Mat44.get_identity: the handle returned by the engine is stored and
\* returned as it is.
Mat44_get_identity(m) ==
    LET m1 == NewObject(m, NameMat44)              \* mat = Mat44()
    IN  IF m1.raised THEN m1 ELSE
        LET m2 == ECall(m1, "Mat44_get_identity", 0, <<>>, <<>>, FALSE,
                        OkHandle(NameMat44, 1, DefaultType, <<>>))
            mat == [m1.ret EXCEPT !.handle = Ret(m2)]
        IN  Return(m2, mat)

Mat44_mul(m, self, other) ==
    LET m1 == NewObject(m, NameMat44)
    IN  IF m1.raised THEN m1 ELSE
        LET m2 == ECall(m1, "Mat44_mul", 0, <<>>, <<self.handle, other.handle>>, FALSE,
                        OkHandle(NameMat44,
                                 m1.heap[self.handle].val * m1.heap[other.handle].val,
                                 DefaultType, <<self.handle, other.handle>>))
            mat == [m1.ret EXCEPT !.handle = Ret(m2)]
            m3 == check_status(m2, mat.handle)
        IN  IF m3.raised THEN Del(m3, mat) ELSE Return(m3, mat)

Mat44_deep_copy(m, self) ==
    LET m1 == NewObject(m, NameMat44)
    IN  IF m1.raised THEN m1 ELSE
        LET m2 == ECall(m1, "Mat44_deep_copy", 0, <<>>, <<self.handle>>, FALSE,
                        OkHandle(NameMat44, m1.heap[self.handle].val, DefaultType,
                                 <<self.handle>>))
            mat == [m1.ret EXCEPT !.handle = Ret(m2)]
            m3 == check_status(m2, mat.handle)
        IN  IF m3.raised THEN Del(m3, mat) ELSE Return(m3, mat)

\* Mat44.fill(src) with src a 4x4 array holding tm: self.handle is rebound to
\* the handle the engine returns, as it is.
Mat44_fill_matrix(m, self, tm) ==
    LET m1 == ECall(m, "Mat44_construct_from_TM", 0, <<>>, <<>>, FALSE,
                    OkHandle(NameMat44, tm, DefaultType, <<>>))
    IN  [m1 EXCEPT !.self = [self EXCEPT !.handle = Ret(m1)]]

\* Mat44.fill(src) with src a number.
Mat44_fill_number(m, self, num) ==
    LET m1 == ECallMut(m, "Mat44_fill", 0, <<>>, <<self.handle>>, FALSE, self.handle,
                       [m.heap[self.handle] EXCEPT !.val = num])
    IN  try_calling(m1, Ret(m1))

\* Mat44.__eq__
Mat44_eq(m, self, other) ==
    LET m1 == ECall(m, "Mat44_equal", 0, <<>>, <<self.handle, other.handle>>, FALSE,
                    OkHandle("int",
                             IF m.heap[self.handle].val = m.heap[other.handle].val
                             THEN 1 ELSE 0, "", <<>>))
        h == Ret(m1)
        m2 == check_status(m1, h)
    IN  IF m2.raised THEN m2
        ELSE deleteDataHandle([m2 EXCEPT !.value = m2.heap[h].val], h)

----------------------------------------------------------------------------
(* NiftyResample *)

Resample_set_reference_image(m, self, reference_image) ==
    setParameter(m, self.handle, self.name, "reference_image", reference_image.handle)

Resample_set_floating_image(m, self, floating_image) ==
    setParameter(m, self.handle, self.name, "floating_image", floating_image.handle)

\* cSIRFReg_SIRFRegNiftyResample_add_transformation(hs, hv, type): the
\* transformation is appended to the chain with its type.
add_transformation(m, self, src, type) ==
    LET m1 == ECall(m, "add_transformation", 0, <<type>>, <<self.handle, src.handle>>,
                    FALSE, VoidHandle)
        m2 == IF m1.heap[Ret(m1)].ok
              THEN [m1 EXCEPT !.rs.chain = Append(@, [h |-> src.handle, type |-> type])]
              ELSE m1
    IN  try_calling(m2, Ret(m2))

\* assert isinstance(src, Mat44): an AssertionError ends the method.
add_transformation_affine(m, self, src) ==
    IF src.name # NameMat44 THEN Raise(m)
    ELSE add_transformation(m, self, src, "affine")

\* Mutant: the displacement field is added under the tag of the method below.
add_transformation_disp_as_def(m, self, src) ==
    IF src.name # NameDisp THEN Raise(m)
    ELSE add_transformation(m, self, src, "deformation")

\* assert isinstance(src, NiftiImage3DDisplacement)
add_transformation_disp(m, self, src) ==
    IF src.name # NameDisp THEN Raise(m)
    ELSE add_transformation(m, self, src, "displacement")

\* assert isinstance(src, NiftiImage3DDeformation)
add_transformation_def(m, self, src) ==
    IF src.name # NameDef THEN Raise(m)
    ELSE add_transformation(m, self, src, "deformation")

set_interpolation_type(m, self, type) ==
    set_int_par(m, self.handle, self.name, "interpolation_type", type)

set_interpolation_type_to_nearest_neighbour(m, self) ==
    set_int_par(m, self.handle, self.name, "interpolation_type", 0)

set_interpolation_type_to_linear(m, self) ==
    set_int_par(m, self.handle, self.name, "interpolation_type", 1)

\* Mutant: the enumeration is renumbered contiguously, cubic spline becoming 2.
set_interpolation_type_to_cubic_spline_renumbered(m, self) ==
    set_int_par(m, self.handle, self.name, "interpolation_type", 2)

set_interpolation_type_to_cubic_spline(m, self) ==
    set_int_par(m, self.handle, self.name, "interpolation_type", 3)

set_interpolation_type_to_sinc(m, self) ==
    set_int_par(m, self.handle, self.name, "interpolation_type", 4)

\* cSIRFReg_SIRFRegNiftyResample_update: needs both images; a failed run
\* produces nothing.
cSIRFReg_SIRFRegNiftyResample_update(m, hs) ==
    LET m1 == ECall(m, "Resample_update", 0, <<>>, <<hs>>,
                    m.rs.ref = None \/ m.rs.flo = None, VoidHandle)
    IN  IF m1.heap[Ret(m1)].ok THEN [m1 EXCEPT !.rs.avail = TRUE] ELSE m1

\* Mutant: the status the engine returns is deleted unchecked.
Resample_update_unchecked(m, self) ==
    LET m1 == cSIRFReg_SIRFRegNiftyResample_update(m, self.handle)
    IN  deleteDataHandle(m1, Ret(m1))

Resample_update(m, self) ==
    LET m1 == cSIRFReg_SIRFRegNiftyResample_update(m, self.handle)
    IN  try_calling(m1, Ret(m1))

\* _getParameterHandle(hs, set, par) for the resampler's output (refused
\* while there is none): the handle is checked before it is returned.
getParameterHandle(m, hs, set, par) ==
    LET m1 == ECall(m, "parameter", 0, <<set, par>>, <<hs>>, ~m.rs.avail,
                    OkHandle(NameImage3D, m.rs.interp, DefaultType,
                             <<m.rs.ref, m.rs.flo>>
                                 \o [i \in 1..Len(m.rs.chain) |-> m.rs.chain[i].h]))
    IN  check_status(m1, Ret(m1))

Resample_get_output(m, self) ==
    LET m1 == NewObject(m, NameImage3D)            \* image = NiftiImage3D()
    IN  IF m1.raised THEN m1 ELSE
        LET m2 == getParameterHandle(m1, self.handle, self.name, "output")
        IN  IF m2.raised THEN Del(m2, m1.ret) ELSE
            LET image == [m1.ret EXCEPT !.handle = Ret(m2)]
                m3 == check_status(m2, image.handle)
            IN  IF m3.raised THEN Del(m3, image) ELSE Return(m3, image)

----------------------------------------------------------------------------
(* MessageRedirector: routing of the engine's info, warning and error text  *)

NameRedirector == "MessageRedirector"

\* Values a constructor argument can take: None, a string, anything else.
PyNone == [type |-> "NoneType", s |-> ""]
PyStr(s) == [type |-> "str", s |-> s]
PyInt == [type |-> "int", s |-> ""]

\* The names that select a standard stream.
StreamNames == {"stdout", "stderr", "cout", "cerr"}

\* A redirector before its constructor ran: no sink and no case attribute
\* for any channel; pc is the position of its __del__ (0: not started).
Unset == 0 - 1
NewRedirector ==
    [name |-> NameRedirector, handle |-> None,
     sink |-> [c \in Channels |-> None], case |-> [c \in Channels |-> Unset], pc |-> 0]

\* The state a constructor runs on.
RedirectMachine(ss, ch) == [sinks |-> ss, chan |-> ch, self |-> NewRedirector, raised |-> FALSE]

\* pysirfreg.newTextPrinter(name) / newTextWriter(filename): a new sink,
\* whose id is the last of sinks.
newTextSink(st, kind, dest) ==
    [st EXCEPT !.sinks = Append(@, [kind |-> kind, dest |-> dest, deleted |-> FALSE])]

\* pysirfreg.openChannel(channel, sink): the channel now writes to sink.
openChannel(ch, c, sink) == [ch EXCEPT ![c] = sink]

\* pysirfreg.closeChannel(channel, sink): the channel is closed when it
\* writes to sink.
closeChannel(ch, c, sink) == IF ch[c] = sink THEN [ch EXCEPT ![c] = None] ELSE ch

\* Where a sink sends the text: a printer to the stream it names, a writer
\* to the file it names, and nowhere when the name is empty.
Route(sink) ==
    IF sink.kind = "TextPrinter" THEN <<"stream", sink.dest>>
    ELSE IF sink.dest = "" THEN <<"suppressed", "">>
    ELSE <<"file", sink.dest>>

\* Mutant: the channel number of the info block is used in every block.
redirect_to_info(st, c, arg) ==
    LET dest == IF arg = PyNone THEN PyStr("") ELSE arg
    IN  IF dest.type # "str" THEN [st EXCEPT !.raised = TRUE]
        ELSE LET k == IF dest.s \in StreamNames THEN 0 ELSE 1
                 st1 == newTextSink(st, IF k = 0 THEN "TextPrinter" ELSE "TextWriter", dest.s)
                 sink == Len(st1.sinks)
             IN  [st1 EXCEPT !.self.sink[c] = sink, !.self.case[c] = k,
                             !.chan = openChannel(@, INFO_CHANNEL, sink)]

\* One block of __init__: the argument for channel c.
redirect(st, c, arg) ==
    LET dest == IF arg = PyNone THEN PyStr("") ELSE arg      \* if info is None: info = ''
    IN  IF dest.type # "str" THEN [st EXCEPT !.raised = TRUE]
        ELSE LET k == IF dest.s \in StreamNames THEN 0 ELSE 1
                 st1 == newTextSink(st, IF k = 0 THEN "TextPrinter" ELSE "TextWriter", dest.s)
                 sink == Len(st1.sinks)
             IN  [st1 EXCEPT !.self.sink[c] = sink, !.self.case[c] = k,
                             !.chan = openChannel(@, c, sink)]

\* MessageRedirector.__init__(info, warn, errr)
MessageRedirector_init(st, info, warn, errr) ==
    LET s1 == redirect(st, INFO_CHANNEL, info)
    IN  IF s1.raised THEN s1 ELSE
        LET s2 == redirect(s1, WARNING_CHANNEL, warn)
        IN  IF s2.raised THEN s2 ELSE redirect(s2, ERROR_CHANNEL, errr)

\* The defaults of __init__: info=None, warn='stdout', errr='stdout'.
DefaultArgs == <<PyNone, PyStr("stdout"), PyStr("stdout")>>

\* __del__, the deletion of the sink of channel c:
\* try_calling(pysirfreg.deleteTextPrinter(self.<c>)) or deleteTextWriter.
delete_sink(m, self, c) ==
    IF self.case[c] = Unset THEN Raise(m)                    \* AttributeError
    ELSE LET m1 == ECall(m, IF self.case[c] = 0 THEN "deleteTextPrinter" ELSE "deleteTextWriter",
                         self.sink[c], <<>>, <<>>, FALSE, VoidHandle)
         IN  try_calling(m1, Ret(m1))

----------------------------------------------------------------------------
(* Bookkeeping shared by the actions *)

InitLast ==
    [op |-> "init", args |-> <<>>, num |-> 0, fail |-> 0, raised |-> FALSE,
     ret |-> NoObj, value |-> 0, calls |-> <<>>, pre |-> <<>>, preObjs |-> <<>>,
     preReg |-> NoReg, preRs |-> NoRs]

\* The objects a list of indices denotes.
Objects(os, idx) == [i \in 1..Len(idx) |-> os[idx[i]]]

\* The state after a method ran to m: the engine's handles, the object the
\* method was called on (args[1]) when the method rebound its handle, the
\* returned object (now held by the caller) and the record of the call.
Finish(op, args, num, m) ==
    /\ heap' = m.heap
    /\ objs' = LET os == IF m.self # NoObj THEN [objs EXCEPT ![args[1]] = m.self] ELSE objs
               IN  IF m.ret # NoObj THEN Append(os, m.ret) ELSE os
    /\ last' = [op |-> op, args |-> args, num |-> num, fail |-> m.fail,
                raised |-> m.raised, ret |-> m.ret, value |-> m.value, calls |-> m.calls,
                pre |-> heap, preObjs |-> objs, preReg |-> reg, preRs |-> rs]
    /\ UNCHANGED <<sinks, chan>>

\* A caller's step that calls no method of the module.
Note(op) ==
    /\ last' = [InitLast EXCEPT !.op = op]
    /\ UNCHANGED <<sinks, chan>>

\* The caller goes on while the engine has handed out fewer than most
\* handles since Init (n0 is the number of handles Init holds).
CanStart(n0, most) == Len(heap) < n0 + most

----------------------------------------------------------------------------
(* Specification SpecCompose: a caller holding a reference image and one   *)
(* transformation of each variant builds lists of transformations and      *)
(* composes them.                                                          *)

InitPool ==
    /\ heap = << OkHandle(NameImage3D, 1, DefaultType, <<>>), OkHandle(NameMat44, 1, DefaultType, <<>>),
                 OkHandle(NameDisp, 1, DefaultType, <<>>), OkHandle(NameDef, 1, DefaultType, <<>>) >>
    /\ objs = << [name |-> NameImage3D, handle |-> 1], [name |-> NameMat44, handle |-> 2],
                 [name |-> NameDisp, handle |-> 3], [name |-> NameDef, handle |-> 4] >>
    /\ lst = <<>>
    /\ reg = NoReg
    /\ rs = NoRs
    /\ last = InitLast
    /\ sinks = <<>>
    /\ chan = NoChannels

PoolSize == 4

\* trans.append(x) / to_dump.append(x)
ListAppend(i) ==
    /\ CanStart(PoolSize, MaxListCalls)
    /\ Len(lst) < MaxList
    /\ lst' = Append(lst, i)
    /\ Note("list_append")
    /\ UNCHANGED <<heap, objs, reg, rs>>

\* trans = [] / to_dump = []
ListClear ==
    /\ CanStart(PoolSize, MaxListCalls)
    /\ lst # <<>>
    /\ lst' = <<>>
    /\ Note("list_clear")
    /\ UNCHANGED <<heap, objs, reg, rs>>

AppendTransformation(i) == IsTransformation(objs[i]) /\ ListAppend(i)

AppendImage(i) == IsImage(objs[i]) /\ ListAppend(i)

ComposeSingleDeformation(r, fail) ==
    /\ CanStart(PoolSize, MaxListCalls)
    /\ objs[r].name = NameImage3D                                \* assert isinstance(ref, NiftiImage3D)
    /\ \A i \in 1..Len(lst) : IsTransformation(objs[lst[i]])    \* assert all(isinstance(n, _Transformation))
    /\ Finish("compose_single_deformation", lst \o <<r>>, 0,
              compose_single_deformation(NewMachine(heap, fail), Objects(objs, lst), objs[r]))
    /\ UNCHANGED <<lst, reg, rs>>

GetAsDeformationField(t, r, fail) ==
    /\ CanStart(PoolSize, MaxListCalls)
    /\ IsTransformation(objs[t])
    /\ objs[r].name = NameImage3D
    /\ Finish("get_as_deformation_field", <<t, r>>, 0,
              get_as_deformation_field(NewMachine(heap, fail), objs[t], objs[r]))
    /\ UNCHANGED <<lst, reg, rs>>

DumpHeaders(fail) ==
    /\ CanStart(PoolSize, MaxListCalls)
    /\ \A i \in 1..Len(lst) : IsImage(objs[lst[i]])             \* assert all(isinstance(n, NiftiImage))
    /\ Finish("dump_headers", lst, 0,
              dump_headers(NewMachine(heap, fail), Objects(objs, lst)))
    /\ UNCHANGED <<lst, reg, rs>>

NextCompose ==
    \/ \E i \in 1..Len(objs) : AppendTransformation(i)
    \/ ListClear
    \/ \E r \in 1..Len(objs), fail \in 0..2 : ComposeSingleDeformation(r, fail)
    \/ \E t \in 1..Len(objs), r \in 1..Len(objs), fail \in 0..2 : GetAsDeformationField(t, r, fail)

SpecCompose == InitPool /\ [][NextCompose]_vars

----------------------------------------------------------------------------
(* Specification SpecDump: the same caller builds lists of images and      *)
(* dumps their headers.                                                    *)

NextDump ==
    \/ \E i \in 1..Len(objs) : AppendImage(i)
    \/ ListClear
    \/ \E fail \in 0..1 : DumpHeaders(fail)

SpecDump == InitPool /\ [][NextDump]_vars

----------------------------------------------------------------------------
(* Specification SpecImage: a caller holding an image of any variant and a *)
(* 3D image copies them, combines them and changes them in place.          *)

MaxImageCalls == 3  \* handles the engine hands out to image methods before the caller stops
MaxScalar == 1      \* largest number used as a scalar operand or fill value

Scalars == 1..MaxScalar

ImagePoolSize == 2

InitImage ==
    \E variant \in ImageNames :
        /\ heap = << OkHandle(variant, 1, DefaultType, <<>>),
                     OkHandle(NameImage3D, 2, DefaultType, <<>>) >>
        /\ objs = << [name |-> variant, handle |-> 1],
                     [name |-> NameImage3D, handle |-> 2] >>
        /\ lst = <<>>
        /\ reg = NoReg
        /\ rs = NoRs
        /\ last = InitLast
        /\ sinks = <<>>
        /\ chan = NoChannels

ImageStart == CanStart(ImagePoolSize, MaxImageCalls)

DeepCopy(a, fail) ==
    /\ ImageStart
    /\ IsImage(objs[a])
    /\ Finish("deep_copy", <<a>>, 0, deep_copy(NewMachine(heap, fail), objs[a]))
    /\ UNCHANGED <<lst, reg, rs>>

AddImage(a, b, fail) ==
    /\ ImageStart
    /\ IsImage(objs[a]) /\ IsImage(objs[b])
    /\ Finish("add", <<a, b>>, 0, add(NewMachine(heap, fail), objs[a], objs[b], 0))
    /\ UNCHANGED <<lst, reg, rs>>

SubImage(a, b, fail) ==
    /\ ImageStart
    /\ IsImage(objs[a]) /\ IsImage(objs[b])
    /\ Finish("sub", <<a, b>>, 0, sub(NewMachine(heap, fail), objs[a], objs[b], 0))
    /\ UNCHANGED <<lst, reg, rs>>

AddNumber(a, s, fail) ==
    /\ ImageStart
    /\ IsImage(objs[a])
    /\ Finish("add", <<a>>, s, add(NewMachine(heap, fail), objs[a], Number, s))
    /\ UNCHANGED <<lst, reg, rs>>

SubNumber(a, s, fail) ==
    /\ ImageStart
    /\ IsImage(objs[a])
    /\ Finish("sub", <<a>>, s, sub(NewMachine(heap, fail), objs[a], Number, s))
    /\ UNCHANGED <<lst, reg, rs>>

MulNumber(a, s, fail) ==
    /\ ImageStart
    /\ IsImage(objs[a])
    /\ Finish("mul", <<a>>, s, mul(NewMachine(heap, fail), objs[a], s))
    /\ UNCHANGED <<lst, reg, rs>>

Equal(a, b, fail) ==
    /\ ImageStart
    /\ IsImage(objs[a]) /\ IsImage(objs[b])                  \* assert isinstance(other, NiftiImage)
    /\ Finish("eq", <<a, b>>, 0, eq(NewMachine(heap, fail), objs[a], objs[b]))
    /\ UNCHANGED <<lst, reg, rs>>

Fill(a, v, fail) ==
    /\ ImageStart
    /\ IsImage(objs[a])
    /\ Finish("fill", <<a>>, v, fill(NewMachine(heap, fail), objs[a], v))
    /\ UNCHANGED <<lst, reg, rs>>

ChangeDatatype(a, d, fail) ==
    /\ ImageStart
    /\ IsImage(objs[a])
    /\ Finish("change_datatype", <<a>>, 0, change_datatype(NewMachine(heap, fail), objs[a], d))
    /\ UNCHANGED <<lst, reg, rs>>

CreateFrom3DImage(a, b, fail) ==
    /\ ImageStart
    /\ objs[a].name \in TensorNames
    /\ objs[b].name = NameImage3D                            \* assert isinstance(src, NiftiImage3D)
    /\ Finish("create_from_3D_image", <<a, b>>, 0,
              create_from_3D_image(NewMachine(heap, fail), objs[a], objs[b]))
    /\ UNCHANGED <<lst, reg, rs>>

NextImage ==
    \/ \E a \in 1..Len(objs), fail \in 0..2 : DeepCopy(a, fail)
    \/ \E a \in 1..Len(objs), b \in 1..Len(objs), fail \in 0..3 : AddImage(a, b, fail)
    \/ \E a \in 1..Len(objs), b \in 1..Len(objs), fail \in 0..3 : SubImage(a, b, fail)
    \/ \E a \in 1..Len(objs), s \in Scalars, fail \in 0..3 : AddNumber(a, s, fail)
    \/ \E a \in 1..Len(objs), s \in Scalars, fail \in 0..3 : SubNumber(a, s, fail)
    \/ \E a \in 1..Len(objs), s \in Scalars, fail \in 0..3 : MulNumber(a, s, fail)
    \/ \E a \in 1..Len(objs), b \in 1..Len(objs), fail \in 0..1 : Equal(a, b, fail)
    \/ \E a \in 1..Len(objs), v \in Scalars \cup {0}, fail \in 0..1 : Fill(a, v, fail)
    \/ \E a \in 1..Len(objs), d \in Datatypes, fail \in 0..1 : ChangeDatatype(a, d, fail)
    \/ \E a \in 1..Len(objs), b \in 1..Len(objs), fail \in 0..1 : CreateFrom3DImage(a, b, fail)

SpecImage == InitImage /\ [][NextImage]_vars

----------------------------------------------------------------------------
(* Specification SpecReg: a caller holding a registration object of either *)
(* variant, two 3D images and a matrix configures, runs and queries it.    *)

MaxRegCalls == 5    \* handles the engine hands out to registration methods before the caller stops
MaxTimePoint == 1   \* largest time point set

RegPoolSize == 4

InitReg ==
    \E variant \in {NameAladin, NameF3d} :
        /\ heap = << OkHandle(variant, 0, "", <<>>),
                     OkHandle(NameImage3D, 1, DefaultType, <<>>),
                     OkHandle(NameImage3D, 2, DefaultType, <<>>),
                     OkHandle(NameMat44, 1, DefaultType, <<>>) >>
        /\ objs = << [name |-> variant, handle |-> 1],
                     [name |-> NameImage3D, handle |-> 2],
                     [name |-> NameImage3D, handle |-> 3],
                     [name |-> NameMat44, handle |-> 4] >>
        /\ lst = <<>>
        /\ reg = NoReg
        /\ rs = NoRs
        /\ last = InitLast
        /\ sinks = <<>>
        /\ chan = NoChannels

RegStart == CanStart(RegPoolSize, MaxRegCalls)

\* The registration object is the caller's first object.
Engine == objs[1]

FinishReg(op, args, num, m) ==
    /\ Finish(op, args, num, m)
    /\ reg' = m.reg
    /\ UNCHANGED <<lst, rs>>

SetParameterFile(f, fail) ==
    /\ RegStart
    /\ FinishReg("set_parameter_file", <<1>>, f,
                 set_parameter_file(RegMachine(heap, fail, reg), Engine, f))

SetReferenceImage(i, fail) ==
    /\ RegStart
    /\ objs[i].name = NameImage3D                            \* assert isinstance(src, NiftiImage3D)
    /\ FinishReg("set_reference_image", <<1, i>>, 0,
                 set_reference_image(RegMachine(heap, fail, reg), Engine, objs[i]))

SetFloatingImage(i, fail) ==
    /\ RegStart
    /\ objs[i].name = NameImage3D
    /\ FinishReg("set_floating_image", <<1, i>>, 0,
                 set_floating_image(RegMachine(heap, fail, reg), Engine, objs[i]))

Update(fail) ==
    /\ RegStart
    /\ FinishReg("update", <<1>>, 0, update(RegMachine(heap, fail, reg), Engine))

GetOutput(fail) ==
    /\ RegStart
    /\ FinishReg("get_output", <<1>>, 0, get_output(RegMachine(heap, fail, reg), Engine))

GetField(kind, dir, fail) ==
    /\ RegStart
    /\ FinishReg("get_field", <<1>>, 0,
                 get_field(RegMachine(heap, fail, reg), Engine, kind, FieldName(kind, dir)))

GetTransformationMatrix(dir, fail) ==
    /\ RegStart
    /\ Engine.name = NameAladin
    /\ FinishReg("get_transformation_matrix", <<1>>, 0,
                 get_transformation_matrix(RegMachine(heap, fail, reg), Engine, dir))

SetFloatingTimePoint(n, fail) ==
    /\ RegStart
    /\ Engine.name = NameF3d
    /\ FinishReg("set_floating_time_point", <<1>>, n,
                 set_floating_time_point(RegMachine(heap, fail, reg), Engine, n))

SetReferenceTimePoint(n, fail) ==
    /\ RegStart
    /\ Engine.name = NameF3d
    /\ FinishReg("set_reference_time_point", <<1>>, n,
                 set_reference_time_point(RegMachine(heap, fail, reg), Engine, n))

SetInitialAffineTransformation(i, fail) ==
    /\ RegStart
    /\ Engine.name = NameF3d
    /\ objs[i].name = NameMat44                              \* assert isinstance(src, Mat44)
    /\ FinishReg("set_initial_affine_transformation", <<1, i>>, 0,
                 set_initial_affine_transformation(RegMachine(heap, fail, reg), Engine, objs[i]))

NextReg ==
    \/ \E f \in 1..1, fail \in 0..1 : SetParameterFile(f, fail)
    \/ \E i \in 1..Len(objs), fail \in 0..1 : SetReferenceImage(i, fail)
    \/ \E i \in 1..Len(objs), fail \in 0..1 : SetFloatingImage(i, fail)
    \/ \E fail \in 0..1 : Update(fail)
    \/ \E fail \in 0..2 : GetOutput(fail)
    \/ \E kind \in FieldKinds, dir \in Directions, fail \in 0..2 : GetField(kind, dir, fail)
    \/ \E dir \in Directions, fail \in 0..2 : GetTransformationMatrix(dir, fail)
    \/ \E n \in 1..MaxTimePoint, fail \in 0..1 : SetFloatingTimePoint(n, fail)
    \/ \E n \in 1..MaxTimePoint, fail \in 0..1 : SetReferenceTimePoint(n, fail)
    \/ \E i \in 1..Len(objs), fail \in 0..1 : SetInitialAffineTransformation(i, fail)

SpecReg == InitReg /\ [][NextReg]_vars

----------------------------------------------------------------------------
(* Specification SpecMat: a caller holding two matrices combines, copies   *)
(* and refills them.                                                       *)

MaxMatCalls == 3    \* handles the engine hands out to Mat44 methods before the caller stops
MaxEntry == 2       \* largest value used to fill a matrix

MatPoolSize == 2

InitMat ==
    /\ heap = << OkHandle(NameMat44, 2, DefaultType, <<>>),
                 OkHandle(NameMat44, 3, DefaultType, <<>>) >>
    /\ objs = << [name |-> NameMat44, handle |-> 1], [name |-> NameMat44, handle |-> 2] >>
    /\ lst = <<>>
    /\ reg = NoReg
    /\ rs = NoRs
    /\ last = InitLast
    /\ sinks = <<>>
    /\ chan = NoChannels

MatStart == CanStart(MatPoolSize, MaxMatCalls)

\* assert self.handle is not None
HasHandle(o) == o.handle # None

GetIdentity(fail) ==
    /\ MatStart
    /\ Finish("Mat44_get_identity", <<>>, 0, Mat44_get_identity(NewMachine(heap, fail)))
    /\ UNCHANGED <<lst, reg, rs>>

MulMat(a, b, fail) ==
    /\ MatStart
    /\ Finish("Mat44_mul", <<a, b>>, 0, Mat44_mul(NewMachine(heap, fail), objs[a], objs[b]))
    /\ UNCHANGED <<lst, reg, rs>>

DeepCopyMat(a, fail) ==
    /\ MatStart
    /\ HasHandle(objs[a])
    /\ Finish("Mat44_deep_copy", <<a>>, 0, Mat44_deep_copy(NewMachine(heap, fail), objs[a]))
    /\ UNCHANGED <<lst, reg, rs>>

FillMatrix(a, tm, fail) ==
    /\ MatStart
    /\ HasHandle(objs[a])
    /\ Finish("Mat44_fill_matrix", <<a>>, tm,
              Mat44_fill_matrix(NewMachine(heap, fail), objs[a], tm))
    /\ UNCHANGED <<lst, reg, rs>>

FillNumber(a, num, fail) ==
    /\ MatStart
    /\ HasHandle(objs[a])
    /\ Finish("Mat44_fill_number", <<a>>, num,
              Mat44_fill_number(NewMachine(heap, fail), objs[a], num))
    /\ UNCHANGED <<lst, reg, rs>>

EqualMat(a, b, fail) ==
    /\ MatStart
    /\ Finish("Mat44_eq", <<a, b>>, 0, Mat44_eq(NewMachine(heap, fail), objs[a], objs[b]))
    /\ UNCHANGED <<lst, reg, rs>>

NextMat ==
    \/ \E fail \in 0..2 : GetIdentity(fail)
    \/ \E a \in 1..Len(objs), b \in 1..Len(objs), fail \in 0..2 : MulMat(a, b, fail)
    \/ \E a \in 1..Len(objs), fail \in 0..2 : DeepCopyMat(a, fail)
    \/ \E a \in 1..Len(objs), tm \in 1..MaxEntry, fail \in 0..1 : FillMatrix(a, tm, fail)
    \/ \E a \in 1..Len(objs), num \in 1..MaxEntry, fail \in 0..1 : FillNumber(a, num, fail)
    \/ \E a \in 1..Len(objs), b \in 1..Len(objs), fail \in 0..1 : EqualMat(a, b, fail)

SpecMat == InitMat /\ [][NextMat]_vars

----------------------------------------------------------------------------
(* Specification SpecResample: a caller holding a resampler, two 3D images *)
(* and one transformation of each variant configures and runs it.          *)

MaxResampleCalls == 4   \* handles the engine hands out to resampler methods before the caller stops
MaxInterp == 4          \* largest integer passed to set_interpolation_type

ResamplePoolSize == 6

InitResample ==
    /\ heap = << OkHandle(NameResample, 0, "", <<>>),
                 OkHandle(NameImage3D, 1, DefaultType, <<>>),
                 OkHandle(NameImage3D, 2, DefaultType, <<>>),
                 OkHandle(NameMat44, 1, DefaultType, <<>>),
                 OkHandle(NameDisp, 1, DefaultType, <<>>),
                 OkHandle(NameDef, 1, DefaultType, <<>>) >>
    /\ objs = << [name |-> NameResample, handle |-> 1],
                 [name |-> NameImage3D, handle |-> 2],
                 [name |-> NameImage3D, handle |-> 3],
                 [name |-> NameMat44, handle |-> 4],
                 [name |-> NameDisp, handle |-> 5],
                 [name |-> NameDef, handle |-> 6] >>
    /\ lst = <<>>
    /\ reg = NoReg
    /\ rs = NoRs
    /\ last = InitLast
    /\ sinks = <<>>
    /\ chan = NoChannels

ResampleStart == CanStart(ResamplePoolSize, MaxResampleCalls)

\* The resampler is the caller's first object.
Resampler == objs[1]

FinishRs(op, args, num, m) ==
    /\ Finish(op, args, num, m)
    /\ rs' = m.rs
    /\ UNCHANGED <<lst, reg>>

ResampleSetReferenceImage(i, fail) ==
    /\ ResampleStart
    /\ objs[i].name = NameImage3D                            \* assert isinstance(reference_image, NiftiImage3D)
    /\ FinishRs("Resample_set_reference_image", <<1, i>>, 0,
                Resample_set_reference_image(RsMachine(heap, fail, rs), Resampler, objs[i]))

ResampleSetFloatingImage(i, fail) ==
    /\ ResampleStart
    /\ objs[i].name = NameImage3D
    /\ FinishRs("Resample_set_floating_image", <<1, i>>, 0,
                Resample_set_floating_image(RsMachine(heap, fail, rs), Resampler, objs[i]))

AddTransformationAffine(i, fail) ==
    /\ ResampleStart
    /\ IsTransformation(objs[i])                              \* the caller passes a transformation of any variant
    /\ FinishRs("add_transformation_affine", <<1, i>>, 0,
                add_transformation_affine(RsMachine(heap, fail, rs), Resampler, objs[i]))

AddTransformationDisp(i, fail) ==
    /\ ResampleStart
    /\ IsTransformation(objs[i])                              \* the caller passes a transformation of any variant
    /\ FinishRs("add_transformation_disp", <<1, i>>, 0,
                add_transformation_disp(RsMachine(heap, fail, rs), Resampler, objs[i]))

AddTransformationDef(i, fail) ==
    /\ ResampleStart
    /\ IsTransformation(objs[i])                              \* the caller passes a transformation of any variant
    /\ FinishRs("add_transformation_def", <<1, i>>, 0,
                add_transformation_def(RsMachine(heap, fail, rs), Resampler, objs[i]))

SetInterpolationType(n, fail) ==
    /\ ResampleStart
    /\ FinishRs("set_interpolation_type", <<1>>, n,
                set_interpolation_type(RsMachine(heap, fail, rs), Resampler, n))

SetInterpolationTypeToNearestNeighbour(fail) ==
    /\ ResampleStart
    /\ FinishRs("set_interpolation_type_to_nearest_neighbour", <<1>>, 0,
                set_interpolation_type_to_nearest_neighbour(RsMachine(heap, fail, rs), Resampler))

SetInterpolationTypeToLinear(fail) ==
    /\ ResampleStart
    /\ FinishRs("set_interpolation_type_to_linear", <<1>>, 0,
                set_interpolation_type_to_linear(RsMachine(heap, fail, rs), Resampler))

SetInterpolationTypeToCubicSpline(fail) ==
    /\ ResampleStart
    /\ FinishRs("set_interpolation_type_to_cubic_spline", <<1>>, 0,
                set_interpolation_type_to_cubic_spline(RsMachine(heap, fail, rs), Resampler))

SetInterpolationTypeToSinc(fail) ==
    /\ ResampleStart
    /\ FinishRs("set_interpolation_type_to_sinc", <<1>>, 0,
                set_interpolation_type_to_sinc(RsMachine(heap, fail, rs), Resampler))

ResampleUpdate(fail) ==
    /\ ResampleStart
    /\ FinishRs("Resample_update", <<1>>, 0,
                Resample_update(RsMachine(heap, fail, rs), Resampler))

ResampleGetOutput(fail) ==
    /\ ResampleStart
    /\ FinishRs("Resample_get_output", <<1>>, 0,
                Resample_get_output(RsMachine(heap, fail, rs), Resampler))

NextResample ==
    \/ \E i \in 1..Len(objs), fail \in 0..1 : ResampleSetReferenceImage(i, fail)
    \/ \E i \in 1..Len(objs), fail \in 0..1 : ResampleSetFloatingImage(i, fail)
    \/ \E i \in 1..Len(objs), fail \in 0..1 : AddTransformationAffine(i, fail)
    \/ \E i \in 1..Len(objs), fail \in 0..1 : AddTransformationDisp(i, fail)
    \/ \E i \in 1..Len(objs), fail \in 0..1 : AddTransformationDef(i, fail)
    \/ \E n \in (0 - 1)..MaxInterp, fail \in 0..1 : SetInterpolationType(n, fail)
    \/ \E fail \in 0..1 : SetInterpolationTypeToNearestNeighbour(fail)
    \/ \E fail \in 0..1 : SetInterpolationTypeToLinear(fail)
    \/ \E fail \in 0..1 : SetInterpolationTypeToCubicSpline(fail)
    \/ \E fail \in 0..1 : SetInterpolationTypeToSinc(fail)
    \/ \E fail \in 0..1 : ResampleUpdate(fail)
    \/ \E fail \in 0..2 : ResampleGetOutput(fail)

SpecResample == InitResample /\ [][NextResample]_vars

----------------------------------------------------------------------------
(* Specification SpecRedirect: a caller builds message redirectors and      *)
(* drops them.  __del__ is followed one engine call at a time, since the    *)
(* engine writes its messages through the channel table between the calls.  *)

MaxRedirectors == 1   \* redirectors the caller builds

\* Argument values tried for info, warn and errr.
RedirectArgs == {PyNone, PyStr(""), PyStr("stdout"), PyStr("log.txt"), PyInt}

\* Positions of __del__: 2c before the sink of channel c is deleted, 2c+1
\* before channel c is closed, DelDone at the end, DelRaised after an error.
DelDone == 6
DelRaised == 7

InitRedirect ==
    /\ heap = <<>>
    /\ objs = <<>>
    /\ lst = <<>>
    /\ reg = NoReg
    /\ rs = NoRs
    /\ last = InitLast
    /\ sinks = <<>>
    /\ chan = NoChannels

\* r = MessageRedirector(info, warn, errr).  When __init__ raises, the
\* half-built object is left to be destroyed.
Construct(info, warn, errr) ==
    /\ Len(objs) < MaxRedirectors
    /\ LET st == MessageRedirector_init(RedirectMachine(sinks, chan), info, warn, errr)
       IN  /\ sinks' = st.sinks
           /\ chan' = st.chan
           /\ objs' = Append(objs, st.self)
           /\ last' = [InitLast EXCEPT !.op = NameRedirector, !.args = <<info, warn, errr>>,
                                       !.num = Len(objs) + 1, !.raised = st.raised,
                                       !.pre = heap, !.preObjs = objs]
    /\ UNCHANGED <<heap, lst, reg, rs>>

\* __del__: the sink of the next channel is deleted.
DelDeleteSink(r, fail) ==
    /\ objs[r].pc \in {0, 2, 4}
    /\ LET c == objs[r].pc \div 2
           m == delete_sink(NewMachine(heap, fail), objs[r], c)
       IN  /\ heap' = m.heap
           /\ sinks' = IF m.raised THEN sinks
                       ELSE [sinks EXCEPT ![objs[r].sink[c]].deleted = TRUE]
           /\ objs' = [objs EXCEPT ![r].pc = IF m.raised THEN DelRaised ELSE @ + 1]
           /\ last' = [InitLast EXCEPT !.op = "del_delete", !.args = <<r>>, !.num = c,
                                       !.fail = fail, !.raised = m.raised, !.calls = m.calls,
                                       !.pre = heap, !.preObjs = objs]
    /\ UNCHANGED <<chan, lst, reg, rs>>

\* __del__: pysirfreg.closeChannel(c, self.<c>) for the channel whose sink
\* was just deleted.
DelCloseChannel(r) ==
    /\ objs[r].pc \in {1, 3, 5}
    /\ LET c == objs[r].pc \div 2
       IN  /\ chan' = closeChannel(chan, c, objs[r].sink[c])
           /\ objs' = [objs EXCEPT ![r].pc = @ + 1]
           /\ last' = [InitLast EXCEPT !.op = "del_close", !.args = <<r>>, !.num = c,
                                       !.pre = heap, !.preObjs = objs]
    /\ UNCHANGED <<heap, sinks, lst, reg, rs>>

NextRedirect ==
    \/ \E info \in RedirectArgs, warn \in RedirectArgs, errr \in RedirectArgs :
           Construct(info, warn, errr)
    \/ \E r \in 1..Len(objs), fail \in 0..1 : DelDeleteSink(r, fail)
    \/ \E r \in 1..Len(objs) : DelCloseChannel(r)

SpecRedirect == InitRedirect /\ [][NextRedirect]_vars

----------------------------------------------------------------------------
(* Properties *)

\* Every engine call of the last method returned a handle in success state.
EngineOK == \A i \in 1..Len(last.calls) : heap[last.calls[i].h].ok

\* The handles of the objects a method was given, read in the state before it.
ArgHandle(i) == last.preObjs[last.args[i]].handle

\* Number of transformations given to the last compose_single_deformation
\* (its last argument is the reference image).
NTrans == Len(last.args) - 1

\* C1: compose_single_deformation raises an error for an empty list and for
\* a list of more than 5 transformations, and returns a deformation field
\* wrapping a handle in success state for every list of 1 to 5
\* transformations when the engine reports success.
C1_ComposeArity ==
    last.op = "compose_single_deformation" =>
        /\ (NTrans = 0 \/ NTrans > 5) => (last.raised /\ last.ret = NoObj)
        /\ (NTrans \in 1..5 /\ EngineOK) =>
              /\ ~last.raised
              /\ last.ret.name = NameDef
              /\ last.ret.handle \in 1..Len(heap)
              /\ heap[last.ret.handle].ok
              /\ heap[last.ret.handle].kind = NameDef
              /\ objs[Len(objs)] = last.ret

\* C1 witness: a chain of five transformations of all three variants composed.
C1_Witness ==
    /\ last.op = "compose_single_deformation"
    /\ NTrans = 5
    /\ ~last.raised
    /\ {last.preObjs[last.args[i]].name : i \in 1..5} = TransformationNames

\* C2 as stated: dump_headers succeeds for every list of 1 to 5 images.
C2_DumpAlwaysSucceeds ==
    (last.op = "dump_headers" /\ Len(last.args) \in 1..5) => ~last.raised

\* C2 as amended: for 1 to 5 images dump_headers makes exactly one engine call,
\* with the count and exactly those images' handles in order (None after
\* them), and raises exactly when the engine reports failure; for 0 and for
\* more than 5 images it raises an error without calling the engine.
C2_DumpArity ==
    last.op = "dump_headers" =>
        LET n == Len(last.args)
        IN  /\ (n = 0 \/ n > 5) => (last.raised /\ last.calls = <<>>)
            /\ n \in 1..5 =>
                  /\ Len(last.calls) = 1
                  /\ last.calls[1].fn = "dump_headers"
                  /\ last.calls[1].n = n
                  /\ Len(last.calls[1].args) = 5
                  /\ \A i \in 1..5 :
                        last.calls[1].args[i] = IF i <= n THEN ArgHandle(i) ELSE None
                  /\ last.raised <=> ~EngineOK

\* C2 witness: five images, not all the same one, dumped successfully.
C2_Witness ==
    /\ last.op = "dump_headers"
    /\ Len(last.args) = 5
    /\ ~last.raised
    /\ last.args[1] # last.args[2]
    /\ last.args[4] # last.args[5]

\* C3: composing the single-element chain [T] over R does exactly what
\* T.get_as_deformation_field(R) does from the same state: the same engine
\* calls, the same handles, the same outcome and returned object, and no
\* call of the engine's composition routine.
C3_SingleDelegates ==
    (last.op = "compose_single_deformation" /\ NTrans = 1) =>
        LET T == last.preObjs[last.args[1]]
            R == last.preObjs[last.args[2]]
            g == get_as_deformation_field(NewMachine(last.pre, last.fail), T, R)
        IN  /\ last.ret = g.ret
            /\ last.raised = g.raised
            /\ last.calls = g.calls
            /\ heap = g.heap
            /\ \A i \in 1..Len(last.calls) :
                  last.calls[i].fn # "compose_single_deformation"

\* C3 witness: a single-element chain composed successfully.
C3_Witness ==
    /\ last.op = "compose_single_deformation"
    /\ NTrans = 1
    /\ ~last.raised
    /\ last.ret.name = NameDef

\* The objects the caller held before the last method are the ones it holds
\* now, each with the handle it had.
SameObjects == \A i \in 1..Len(last.preObjs) : objs[i] = last.preObjs[i]

\* Handle h holds what it held before the last method (status, data,
\* datatype, and it was not released).
Untouched(h) == heap[h] = last.pre[h]

\* Handles the caller's objects held before the last method.
HeldBefore == {last.preObjs[i].handle : i \in 1..Len(last.preObjs)}

\* C4: A + B, A - B, A + s, A - s and A * s work on a fresh deep copy:
\* whether the operator returns or raises, every object the caller held
\* keeps its handle and the operands' handles keep their data; a returned
\* result is a new object on a handle of its own, created during the call,
\* holding the value of the operation.
C4_BinaryOnCopy ==
    last.op \in {"add", "sub", "mul"} =>
        /\ SameObjects
        /\ \A i \in 1..Len(last.args) : Untouched(ArgHandle(i))
        /\ ~last.raised =>
              /\ last.ret = objs[Len(objs)]
              /\ Len(objs) = Len(last.preObjs) + 1
              /\ last.ret.handle \notin HeldBefore
              /\ last.ret.handle > Len(last.pre)
              /\ heap[last.ret.handle].ok
              /\ heap[last.ret.handle].val =
                    MathsVal(last.pre[ArgHandle(1)].val,
                             IF Len(last.args) = 2 THEN last.pre[ArgHandle(2)].val ELSE last.num,
                             IF last.op = "add" THEN 0 ELSE IF last.op = "sub" THEN 1 ELSE 2)

\* C4 witness: A + B returned an image whose data differs from A's and B's.
C4_Witness ==
    /\ last.op = "add"
    /\ Len(last.args) = 2
    /\ ~last.raised
    /\ heap[last.ret.handle].val # heap[ArgHandle(1)].val
    /\ heap[last.ret.handle].val # heap[ArgHandle(2)].val

\* C5: deep_copy of an image A of any variant returns a new object C of A's
\* variant on a handle no other object holds, and A == C is true right after
\* the copy; fill and change_datatype change only the object they are called
\* on, so mutating C leaves A (and every other object) as it was.
C5_DeepCopyIndependent ==
    /\ (last.op = "deep_copy" /\ ~last.raised) =>
          LET A == last.preObjs[last.args[1]]
              C == last.ret
              e == eq(NewMachine(heap, 0), A, C)
          IN  /\ C = objs[Len(objs)]
              /\ C.name = A.name
              /\ C.handle \notin HeldBefore
              /\ SameObjects
              /\ Untouched(A.handle)
              /\ ~e.raised /\ e.value = 1
    /\ last.op \in {"fill", "change_datatype"} =>
          /\ SameObjects
          /\ \A i \in 1..Len(objs) : i # last.args[1] => Untouched(objs[i].handle)
          /\ \A h \in 1..Len(last.pre) : h # ArgHandle(1) => Untouched(h)

\* C5 witness: a deep copy C of an object A still held was filled, and now
\* differs from A.
C5_Witness ==
    /\ last.op = "fill"
    /\ ~last.raised
    /\ \E i \in 1..Len(objs) :
          /\ i # last.args[1]
          /\ objs[i].name = objs[last.args[1]].name
          /\ last.pre[ArgHandle(1)].src = <<objs[i].handle>>
          /\ heap[objs[i].handle].val # heap[ArgHandle(1)].val

\* The registration object is configured: both images are set.
Configured(r) == r.ref # None /\ r.flo # None

\* What every getter of the registration object returns in the current
\* state when the engine works: the output image, the four fields, and for
\* NiftyAladinSym the two matrices.
GetterResults ==
    LET m == RegMachine(heap, 0, reg)
    IN  {get_output(m, Engine)}
        \cup {get_field(m, Engine, kind, FieldName(kind, dir)) :
                 kind \in FieldKinds, dir \in Directions}
        \cup (IF Engine.name = NameAladin
              THEN {get_transformation_matrix(m, Engine, dir) : dir \in Directions}
              ELSE {})

\* The getter that ran to g returned an object on a success-state handle
\* that holds the result of run number run, computed from the images from.
ReturnsResult(g, run, from) ==
    /\ ~g.raised
    /\ g.ret # NoObj
    /\ g.heap[g.ret.handle].ok
    /\ g.heap[g.ret.handle].val = run
    /\ g.heap[g.ret.handle].src = from

\* C8: for both variants, update() on a configured engine either returns,
\* and then the result of this run (computed from the images set) is what
\* every getter returns, or raises, exactly when the engine reports failure,
\* and then the engine is as it was before: the result of an earlier
\* successful update is still what every getter returns.
C8_UpdateAllOrNothing ==
    (last.op = "update" /\ Configured(last.preReg)) =>
        /\ last.raised <=> ~EngineOK
        /\ ~last.raised =>
              /\ reg.avail
              /\ reg.run = last.preReg.run + 1
              /\ reg.from = <<last.preReg.ref, last.preReg.flo>>
              /\ \A g \in GetterResults : ReturnsResult(g, reg.run, reg.from)
        /\ last.raised =>
              /\ reg = last.preReg
              /\ last.preReg.avail =>
                    \A g \in GetterResults :
                        ReturnsResult(g, last.preReg.run, last.preReg.from)

\* C8 witness: an update failed after an earlier one had succeeded.
C8_Witness ==
    /\ last.op = "update"
    /\ last.raised
    /\ Configured(last.preReg)
    /\ last.preReg.avail
    /\ last.preReg.run = 1

\* C9: a result is available only for the images currently set: a
\* successful set_reference_image or set_floating_image leaves the engine
\* without a result, every getter then raises or returns a handle in error state,
\* and whatever a getter returns on a success-state handle is the result of
\* the latest run, computed from the images set when the getter was called.
C9_SetImageInvalidates ==
    /\ reg.avail => reg.from = <<reg.ref, reg.flo>>
    /\ (last.op \in {"set_reference_image", "set_floating_image"} /\ ~last.raised) =>
          /\ ~reg.avail
          /\ \A g \in GetterResults : g.raised \/ ~g.heap[g.ret.handle].ok
    /\ (last.op \in {"get_output", "get_field", "get_transformation_matrix"}
        /\ last.ret # NoObj /\ heap[last.ret.handle].ok) =>
          /\ last.preReg.avail
          /\ heap[last.ret.handle].val = last.preReg.run
          /\ heap[last.ret.handle].src = <<last.preReg.ref, last.preReg.flo>>

\* C9 witness: an image was replaced by a different one after a successful update.
C9_Witness ==
    /\ last.op = "set_reference_image"
    /\ ~last.raised
    /\ last.preReg.avail
    /\ last.preReg.ref # reg.ref

\* C6 as stated: an object a method returns never wraps a handle in error
\* state (the status of the handle is checked before the object is returned).
C6_ReturnedHandlesChecked ==
    last.ret # NoObj => heap[last.ret.handle].ok

\* The methods that change the object they are called on.
MutatingOps ==
    {"fill", "change_datatype", "create_from_3D_image",
     "Mat44_fill_matrix", "Mat44_fill_number",
     "set_parameter_file", "set_reference_image", "set_floating_image",
     "set_floating_time_point", "set_reference_time_point",
     "set_initial_affine_transformation"}

\* C7 as stated: when the engine fails a mutating method, the method raises
\* and the object it was called on is as before: the same handle, in success
\* state, with the same content, and the same engine-side state.
C7_FailedMutationKeepsState ==
    (last.op \in MutatingOps /\ ~EngineOK) =>
        /\ last.raised
        /\ SameObjects
        /\ heap[objs[last.args[1]].handle].ok
        /\ Untouched(ArgHandle(1))
        /\ reg = last.preReg
        /\ rs = last.preRs

\* C10: NiftyResample.update() called while the reference image or the
\* floating image is not set raises, whatever was called before, leaves the
\* resampler as it was, and there is no output: get_output raises.
C10_ResampleNeedsImages ==
    (last.op = "Resample_update" /\ (last.preRs.ref = None \/ last.preRs.flo = None)) =>
        /\ last.raised
        /\ rs = last.preRs
        /\ ~rs.avail
        /\ Resample_get_output(RsMachine(heap, 0, rs), Resampler).raised

\* C10 witness: update raised for want of an image after a transformation
\* was added and the interpolation type was set.
C10_Witness ==
    /\ last.op = "Resample_update"
    /\ last.raised
    /\ rs.ref = None \/ rs.flo = None
    /\ rs.chain # <<>>
    /\ rs.set

----------------------------------------------------------------------------
(* Properties of the message redirector *)

\* What the docstring of __init__ promises for an argument value.
Expected(arg) ==
    IF arg = PyNone \/ arg.s = "" THEN <<"suppressed", "">>
    ELSE IF arg.s \in StreamNames THEN <<"stream", arg.s>>
    ELSE <<"file", arg.s>>

Constructed == last.op = NameRedirector

\* C11 as stated: a redirector built with the default arguments leaves no
\* channel suppressed.
C11_DefaultAllActive ==
    (Constructed /\ last.args = DefaultArgs) =>
        \A c \in Channels : chan[c] # None /\ Route(sinks[chan[c]])[1] # "suppressed"

\* C11 (amended): the constructor raises exactly when an argument is neither
\* None nor a string; otherwise each channel is opened on a sink of its own
\* whose route is the one its own argument asks for (a standard stream, a
\* named file, or suppressed for None and ''), and with the default
\* arguments the warning and error channels go to stdout while the info
\* channel is suppressed.
C11_ChannelsRouted ==
    Constructed =>
        /\ last.raised <=> \E i \in 1..3 : last.args[i].type \notin {"NoneType", "str"}
        /\ ~last.raised =>
               /\ \A c \in Channels :
                      /\ chan[c] = objs[last.num].sink[c]
                      /\ chan[c] # None
                      /\ Route(sinks[chan[c]]) = Expected(last.args[c + 1])
               /\ \A c, d \in Channels : c # d => chan[c] # chan[d]
               /\ last.args = DefaultArgs =>
                      /\ Route(sinks[chan[INFO_CHANNEL]]) = <<"suppressed", "">>
                      /\ Route(sinks[chan[WARNING_CHANNEL]]) = <<"stream", "stdout">>
                      /\ Route(sinks[chan[ERROR_CHANNEL]]) = <<"stream", "stdout">>

\* C11 witness: one redirector routes info to a file, suppresses warnings
\* and sends errors to stdout.
C11_Witness ==
    /\ Constructed
    /\ ~last.raised
    /\ last.args = <<PyStr("log.txt"), PyNone, PyStr("stdout")>>
    /\ Route(sinks[chan[INFO_CHANNEL]]) = <<"file", "log.txt">>
    /\ Route(sinks[chan[WARNING_CHANNEL]])[1] = "suppressed"

----------------------------------------------------------------------------
(* Properties of the interpolation selector, the type tags and the chain *)

\* The interpolation codes of the docstring of set_interpolation_type.
InterpolationCodes == {0, 1, 3, 4}

\* The code each named setter stands for.
SetterCode(op) ==
    CASE op = "set_interpolation_type_to_nearest_neighbour" -> 0
      [] op = "set_interpolation_type_to_linear" -> 1
      [] op = "set_interpolation_type_to_cubic_spline" -> 3
      [] op = "set_interpolation_type_to_sinc" -> 4

NamedSetters ==
    {"set_interpolation_type_to_nearest_neighbour", "set_interpolation_type_to_linear",
     "set_interpolation_type_to_cubic_spline", "set_interpolation_type_to_sinc"}

\* The engine calls of the last method that set the resampler's interpolation type.
InterpolationCalls ==
    {k \in 1..Len(last.calls) :
        /\ last.calls[k].fn = "setParameter"
        /\ last.calls[k].types = <<NameResample, "interpolation_type">>}

\* The number handed to the engine by call k.
Handed(k) == heap[last.calls[k].args[2]].val

\* C12: each named interpolation setter hands the engine its own code
\* (nearest neighbour 0, linear 1, cubic spline 3, sinc 4, never 2) in a
\* single call, and changes nothing but the interpolation selector: the
\* images, the chain, the output, the caller's objects and their handles
\* stay as they were.
C12_NamedSetterCodes ==
    last.op \in NamedSetters =>
        /\ Len(last.calls) = 1
        /\ InterpolationCalls = {1}
        /\ last.calls[1].args[1] = Resampler.handle
        /\ Handed(1) = SetterCode(last.op)
        /\ Handed(1) # 2
        /\ ~last.raised => rs = [last.preRs EXCEPT !.interp = SetterCode(last.op), !.set = TRUE]
        /\ last.raised => rs = last.preRs
        /\ objs = last.preObjs
        /\ \A h \in 1..Len(last.pre) : Untouched(h)

\* C12 witness: cubic spline selected after another kernel had been.
C12_Witness ==
    /\ last.op = "set_interpolation_type_to_cubic_spline"
    /\ ~last.raised
    /\ last.preRs.set
    /\ last.preRs.interp # 3
    /\ rs.interp = 3

\* C13 as stated: the interpolation selector handed to the engine and the
\* one the engine holds are always among 0, 1, 3 and 4.
C13_SelectorInEnumeration ==
    /\ \A k \in InterpolationCalls : Handed(k) \in InterpolationCodes
    /\ rs.set => rs.interp \in InterpolationCodes

\* The tag of each variant of transformation.
Tag(name) ==
    CASE name = NameMat44 -> "1"
      [] name = NameDisp -> "2"
      [] name = NameDef -> "3"

\* C14: for a chain of 2 to 5 transformations, the composition call carries
\* the length of the chain, one tag per element, the i-th tag naming the
\* variant of the i-th element (affine 1, displacement 2, deformation 3),
\* the i-th handle argument being the i-th element's handle and the unused
\* ones None; the call is made whenever the result object could be created.
C14_TagsAligned ==
    (last.op = "compose_single_deformation" /\ NTrans \in 2..5) =>
        /\ \A k \in 1..Len(last.calls) :
              last.calls[k].fn = "compose_single_deformation" =>
                  /\ last.calls[k].n = NTrans
                  /\ Len(last.calls[k].types) = NTrans
                  /\ Len(last.calls[k].args) = 6
                  /\ last.calls[k].args[1] = ArgHandle(NTrans + 1)
                  /\ \A i \in 1..NTrans :
                        /\ last.calls[k].types[i] = Tag(last.preObjs[last.args[i]].name)
                        /\ last.calls[k].args[i + 1] = ArgHandle(i)
                  /\ \A i \in (NTrans + 1)..5 : last.calls[k].args[i + 1] = None
        /\ heap[last.calls[1].h].ok =>
              /\ Len(last.calls) = 2
              /\ last.calls[2].fn = "compose_single_deformation"

\* C14 witness: a deformation, an affine matrix and a displacement composed
\* in that order.
C14_Witness ==
    /\ last.op = "compose_single_deformation"
    /\ NTrans = 3
    /\ ~last.raised
    /\ last.preObjs[last.args[1]].name = NameDef
    /\ last.preObjs[last.args[2]].name = NameMat44
    /\ last.preObjs[last.args[3]].name = NameDisp

AddOps == {"add_transformation_affine", "add_transformation_disp", "add_transformation_def"}

\* The tag and the variant that go with each method.
AddTag(op) ==
    CASE op = "add_transformation_affine" -> "affine"
      [] op = "add_transformation_disp" -> "displacement"
      [] op = "add_transformation_def" -> "deformation"

AddVariant(op) ==
    CASE op = "add_transformation_affine" -> NameMat44
      [] op = "add_transformation_disp" -> NameDisp
      [] op = "add_transformation_def" -> NameDef

TagVariant(type) ==
    CASE type = "affine" -> NameMat44
      [] type = "displacement" -> NameDisp
      [] type = "deformation" -> NameDef

\* C15: a successful add_transformation_affine / _disp / _def appends its
\* argument's handle to the chain under the tag of the method; a failed one,
\* one given an argument of another variant (which raises without calling
\* the engine) and every other method leave the chain as it was; so every
\* entry's tag matches the variant of the object behind its handle.
C15_ChainInCallOrder ==
    /\ last.op \in AddOps =>
          LET src == last.preObjs[last.args[2]]
          IN  /\ src.name # AddVariant(last.op) => (last.raised /\ last.calls = <<>>)
              /\ ~last.raised =>
                    /\ src.name = AddVariant(last.op)
                    /\ rs.chain = Append(last.preRs.chain,
                                         [h |-> src.handle, type |-> AddTag(last.op)])
              /\ last.raised => rs.chain = last.preRs.chain
    /\ last.op \notin AddOps => rs.chain = last.preRs.chain
    /\ \A i \in 1..Len(rs.chain) : heap[rs.chain[i].h].kind = TagVariant(rs.chain[i].type)

\* C15 witness: a displacement field, then an affine matrix added.
C15_Witness ==
    /\ last.op = "add_transformation_affine"
    /\ ~last.raised
    /\ Len(rs.chain) = 2
    /\ rs.chain[1].type = "displacement"
    /\ rs.chain[2].type = "affine"

----------------------------------------------------------------------------
(* Properties of the handles' lifetime *)

\* The caller's objects that hold handle h.
Owners(h) == {i \in 1..Len(objs) : objs[i].handle = h}

\* C16 as stated: between calls every handle is either held by exactly one
\* live object and not released, or held by none and released exactly once.
C16_ReleasedExactlyOnce ==
    \A h \in 1..Len(heap) :
        /\ heap[h].rel <= 1
        /\ Cardinality(Owners(h)) <= 1
        /\ Owners(h) = {} <=> heap[h].rel = 1

\* C17 as stated: no channel is open on a sink that has been deleted.
C17_ClosedBeforeDeleted ==
    \A c \in Channels : chan[c] # None => ~sinks[chan[c]].deleted

====
